---- MODULE Spec2Model ----
(***************************************************************************)
(* Token lifecycle of esplora-rs: Auth (src/src/auth.rs) behind its        *)
(* tokio Mutex, the token endpoint it posts to, and the wall clock.        *)
(*                                                                         *)
(* Every get_token() call is one process c \in Calls.  A call is cut at    *)
(* its await points: lock().await, send().await (the request is on the     *)
(* wire until the provider or the transport answers) and the processing    *)
(* of the answer.  Time is in seconds.                                     *)
(***************************************************************************)
EXTENDS Integers, Sequences, FiniteSets, TLC

(* ------------------------------ bounds -------------------------------- *)

\* number of get_token() calls made in one behaviour
MaxCalls == 3
\* number of times the clock advances in one behaviour
MaxTicks == 2

\* amounts by which the clock advances in one step
Steps == {2, 269}
\* expires_in values the provider answers with
ExpiresIn == {10, 30, 31, 300}
\* ways a refresh fails: send() fails, error_for_status() fails, json() fails
FailKinds == {"transport", "status", "decode"}

Calls == 1..MaxCalls

(* ------------------------------ constants ------------------------------ *)

TOKEN_EXPIRY_BUFFER_SECONDS == 30

(* ------------------------------- values -------------------------------- *)

None == "None"
NoToken == [some |-> FALSE]
NoResp == [kind |-> "none"]
Pending == [kind |-> "Pending"]
OkNone == [kind |-> "OkNone"]
OkSome(s) == [kind |-> "OkSome", access_token |-> s]
Err(variant, cause) == [kind |-> "Err", variant |-> variant, cause |-> cause]

VARIABLES
  client_id,      \* AuthInner.client_id: None or the id
  client_secret,  \* AuthInner.client_secret
  token_url,      \* AuthInner.token_url
  token,          \* AuthInner.token: NoToken or [some, access_token, expires]
  lock,           \* the Mutex around AuthInner: 0 when free, else the holder
  now,            \* Utc::now()
  ticks,          \* how often the clock has advanced
  pc,             \* per call: "idle", "lock", "send", "recv", "done"
  resp,           \* per call: the answer to its token request, until processed
  result,         \* per call: what get_token() returned
  issued,         \* number of tokens the endpoint has issued
  hist,           \* per call: what the call saw and did (history)
  race,           \* history: the calls racing against an absent or expired cache
  held,           \* history: inner.token as the lock holder found it
  origin,         \* history: the response the cached token was built from
  api,            \* per call: the API request a Client helper makes with the token
  req,            \* per call: the request fetch_token sent to the token endpoint
  via             \* per call: the handle (the Auth or a clone of it) it is made on

vars == <<client_id, client_secret, token_url, token, lock, now, ticks, pc,
          resp, result, issued, hist, race, held, origin, api, req, via>>

\* ord:   the call's place in the order of lock acquisitions (0: not yet)
\* saw:   what the call found in the cache: "absent", "expired", "valid"
\* sent:  number of requests the call has sent to the token endpoint
\* hit:   the call returned the cached token
\* answer: "ok" or "failed" once the call's request has been answered
\* got:   the access token issued in answer to the call's request (0: none)
\* old:   the access token of the entry the call found expired (0: none)
NoHist == [ord |-> 0, saw |-> "none", sent |-> 0, hit |-> FALSE, answer |-> "none",
           got |-> 0, old |-> 0]

\* issued_at, expires_in: when the endpoint issued the cached token, and for
\* how long; fetched_at: when fetch_token stored it
NoOrigin == [issued_at |-> 0, expires_in |-> 0, fetched_at |-> 0]

\* a handle on the manager: the Auth a constructor returned, whose Arc points
\* to the AuthInner the constructor allocated (the one whose fields are the
\* variables client_id .. token and whose Mutex is lock)
TheAuth == [name |-> "auth", inner |-> "inner"]

\* mutant: the clone owns a copy of the AuthInner
Clone_deep(h, n) == [name |-> n, inner |-> <<"copy of", h.inner>>]

\* #[derive(Clone)] on Auth, and on Client for its field auth: the field
\* inner is cloned by Arc::clone, which yields a pointer to the same
\* allocation; n names the new handle
Clone(h, n) == [name |-> n, inner |-> h.inner]

\* the handles calls are made on: the Auth, a clone of it, and the Auth in a
\* clone of the Client that holds a clone
Handles ==
  {TheAuth, Clone(TheAuth, "auth.clone()"),
   Clone(Clone(TheAuth, "auth.clone()"), "client.clone().auth")}

\* no request to the token endpoint
NoReq == [method |-> "none"]

\* the Authorization header of an API request, or none
NoHeader == [present |-> FALSE]

\* state: "none", "sent" (the request is on the wire) or "done" (the helper
\* has returned); authorization: the header of the request sent; result: what
\* the helper returned
NoApi == [state |-> "none", authorization |-> NoHeader, result |-> Pending]

(* ----------------------------- Token ------------------------------------ *)

\* mutant: the buffer is applied a second time at the check
is_expired_early(t, n) == n + TOKEN_EXPIRY_BUFFER_SECONDS >= t.expires

\* mutant: the token is still served at the instant of its expiry
is_expired_strict(t, n) == n > t.expires

\* Token::is_expired, with Utc::now() = n
is_expired(t, n) == n >= t.expires

\* mutant: the buffer is not subtracted
expires_of_nobuffer(n, expires_in) == n + expires_in

\* mutant: a lifetime of at most the buffer is kept whole
expires_of_clamped(n, expires_in) ==
  n + (IF expires_in > TOKEN_EXPIRY_BUFFER_SECONDS
       THEN expires_in - TOKEN_EXPIRY_BUFFER_SECONDS ELSE expires_in)

\* the expiry fetch_token computes from a response processed at n
expires_of(n, expires_in) == n + (expires_in - TOKEN_EXPIRY_BUFFER_SECONDS)

(* ----------------------------- constructors ----------------------------- *)

\* mutant: the secret is not kept
AuthNew_nosecret ==
  /\ client_id = "test_id"
  /\ client_secret = None
  /\ token_url = "/token"
  /\ token = NoToken

\* Auth::new
AuthNew ==
  /\ client_id = "test_id"
  /\ client_secret = "test_secret"
  /\ token_url = "/token"
  /\ token = NoToken

\* Auth::new_public
AuthNewPublic ==
  /\ client_id = None
  /\ client_secret = None
  /\ token_url = None
  /\ token = NoToken

Init ==
  /\ (AuthNew \/ AuthNewPublic)
  /\ lock = 0
  /\ now = 0
  /\ ticks = 0
  /\ pc = [c \in Calls |-> "idle"]
  /\ resp = [c \in Calls |-> NoResp]
  /\ result = [c \in Calls |-> Pending]
  /\ issued = 0
  /\ hist = [c \in Calls |-> NoHist]
  /\ race = {}
  /\ held = NoToken
  /\ origin = NoOrigin
  /\ api = [c \in Calls |-> NoApi]
  /\ req = [c \in Calls |-> NoReq]
  /\ via = [c \in Calls |-> TheAuth]

(* ----------------------------- get_token -------------------------------- *)

InProgress == {c \in Calls : pc[c] \in {"lock", "send", "recv"}}

\* what a call finds in the cache t at time n
Saw(t, n) == IF ~t.some THEN "absent" ELSE IF n >= t.expires THEN "expired" ELSE "valid"

\* the race after call c is made: a call made on an authenticated manager
\* whose cache is absent or expired joins the calls of the race that are still
\* in progress, or starts a race when there are none
RaceWith(c) ==
  IF client_id = None \/ Saw(token, now) = "valid" THEN race
  ELSE IF race \cap InProgress = {} THEN {c}
  ELSE race \cup {c}

\* a caller invokes get_token(): it queues for the lock (auth.rs:75).
\* Calls are interchangeable, so they are invoked in the order of their ids.
Call(c) ==
  /\ pc[c] = "idle"
  /\ \A d \in Calls : d < c => pc[d] # "idle"
  /\ pc' = [pc EXCEPT ![c] = "lock"]
  /\ race' = RaceWith(c)
  /\ UNCHANGED <<via, req, api, client_id, client_secret, token_url, token, lock, now, ticks,
                 resp, result, issued, hist, held, origin>>

\* mutant: the lock excludes nobody
LockFree_none == TRUE

\* the Mutex can be taken
LockFree == lock = 0

\* mutant: the fields are taken for granted
CredentialError_unchecked == "ok"

\* the first three lines of fetch_token (auth.rs:93-95)
CredentialError ==
  IF client_id = None THEN "client_id not set"
  ELSE IF client_secret = None THEN "client_secret not set"
  ELSE IF token_url = None THEN "token_url not set"
  ELSE "ok"

\* mutant: a cached token is served whether expired or not
Decide_noexpiry ==
  IF client_id = None THEN OkNone
  ELSE IF token.some THEN OkSome(token.access_token)
  ELSE IF CredentialError # "ok" THEN Err("Auth", CredentialError)
  ELSE Pending

\* mutant: the mode is not tested
Decide_nomode ==
  IF token.some /\ ~is_expired(token, now) THEN OkSome(token.access_token)
  ELSE IF CredentialError # "ok" THEN Err("Auth", CredentialError)
  ELSE Pending

\* get_token up to its return or up to send().await: what it decides with the
\* lock held and the clock at now.  Pending: the request is sent.
Decide ==
  IF client_id = None THEN OkNone
  ELSE IF token.some /\ ~is_expired(token, now) THEN OkSome(token.access_token)
  ELSE IF CredentialError # "ok" THEN Err("Auth", CredentialError)
  ELSE Pending

\* mutant: the scope parameter is left out
TokenRequest_noscope ==
  [method |-> "POST", url |-> token_url,
   form |-> << <<"grant_type", "client_credentials">>,
               <<"client_id", client_id>>,
               <<"client_secret", client_secret>> >>]

\* the request fetch_token builds (auth.rs:97-107): a POST to token_url with
\* the four pairs of params as its form body
TokenRequest ==
  [method |-> "POST", url |-> token_url,
   form |-> << <<"grant_type", "client_credentials">>,
               <<"client_id", client_id>>,
               <<"client_secret", client_secret>>,
               <<"scope", "openid">> >>]

\* lock().await completes for c and get_token runs to its next await or return
Acquire(c) ==
  /\ pc[c] = "lock"
  /\ LockFree
  /\ LET d == Decide
         h == [hist[c] EXCEPT !.ord = 1 + Cardinality({x \in Calls : hist[x].ord > 0}),
                              !.saw = Saw(token, now),
                              !.old = IF Saw(token, now) = "expired"
                                      THEN token.access_token ELSE 0]
     IN IF d = Pending
        THEN /\ pc' = [pc EXCEPT ![c] = "send"]
             /\ lock' = c
             /\ held' = token
             /\ result' = result
             /\ hist' = [hist EXCEPT ![c] = [h EXCEPT !.sent = @ + 1]]
             /\ req' = [req EXCEPT ![c] = TokenRequest]
        ELSE /\ pc' = [pc EXCEPT ![c] = "done"]
             /\ lock' = lock
             /\ held' = held
             /\ result' = [result EXCEPT ![c] = d]
             /\ hist' = [hist EXCEPT ![c] = [h EXCEPT !.hit = (d.kind = "OkSome")]]
             /\ req' = req
  /\ UNCHANGED <<via, api, client_id, client_secret, token_url, token, now, ticks,
                 resp, issued, race, origin>>

(* ----------------------------- token endpoint --------------------------- *)

\* the endpoint answers 2xx with {"access_token": ..., "expires_in": e}; the
\* access token strings it issues are all different, the n-th is n
ProviderIssue(c, e) ==
  /\ pc[c] = "send"
  /\ issued' = issued + 1
  /\ resp' = [resp EXCEPT ![c] =
                [kind |-> "ok", access_token |-> issued + 1, expires_in |-> e,
                 issued_at |-> now]]
  /\ pc' = [pc EXCEPT ![c] = "recv"]
  /\ hist' = [hist EXCEPT ![c].got = issued + 1]
  /\ UNCHANGED <<via, req, api, client_id, client_secret, token_url, token, lock, now, ticks,
                 result, race, held, origin>>

\* the request fails: in transit or by timeout, by a non-2xx status, or by a
\* body that is not a TokenResponse
ProviderFail(c, k) ==
  /\ pc[c] = "send"
  /\ resp' = [resp EXCEPT ![c] = [kind |-> k]]
  /\ pc' = [pc EXCEPT ![c] = "recv"]
  /\ UNCHANGED <<via, req, api, client_id, client_secret, token_url, token, lock, now, ticks,
                 result, issued, hist, race, held, origin>>

(* ----------------------------- fetch_token ------------------------------ *)

\* the Token fetch_token builds from a TokenResponse r at time n (auth.rs:114-117)
NewToken(r, n) ==
  [some |-> TRUE, access_token |-> r.access_token,
   expires |-> expires_of(n, r.expires_in)]

\* mutant: the slot is emptied before the request and filled on success
StoredToken_cleared(r, n) == IF r.kind = "ok" THEN NewToken(r, n) ELSE NoToken

\* mutant: the new access token is merged into the entry that is cached
StoredToken_merged(r, n) ==
  IF r.kind # "ok" THEN token
  ELSE IF token.some THEN [NewToken(r, n) EXCEPT !.expires = token.expires]
  ELSE NewToken(r, n)

\* what fetch_token leaves in inner.token (auth.rs:104-119)
StoredToken(r, n) == IF r.kind = "ok" THEN NewToken(r, n) ELSE token

\* mutant: a failed refresh falls back to what is cached
FetchResult_fallback(r, n) ==
  IF r.kind = "ok" THEN OkSome(NewToken(r, n).access_token)
  ELSE IF token.some THEN OkSome(token.access_token)
  ELSE OkNone

\* mutant: the failure is mapped into Error::Auth
FetchResult_auth(r, n) ==
  IF r.kind = "ok" THEN OkSome(NewToken(r, n).access_token)
  ELSE Err("Auth", "request")

\* what get_token returns after fetch_token (auth.rs:88-89, 104-112, 120):
\* send(), error_for_status() and json() fail with a reqwest::Error, which `?`
\* turns into Error::Reqwest
FetchResult(r, n) ==
  IF r.kind = "ok" THEN OkSome(NewToken(r, n).access_token)
  ELSE Err("Reqwest", "request")

\* mutant: a failed refresh is swallowed while the lock is kept
Respond_stuck(c) ==
  /\ pc[c] = "recv"
  /\ token' = StoredToken(resp[c], now)
  /\ origin' = IF resp[c].kind = "ok"
                THEN [issued_at |-> resp[c].issued_at,
                      expires_in |-> resp[c].expires_in, fetched_at |-> now]
                ELSE origin
  /\ result' = [result EXCEPT ![c] = FetchResult(resp[c], now)]
  /\ lock' = IF resp[c].kind = "ok" THEN 0 ELSE lock
  /\ held' = IF resp[c].kind = "ok" THEN NoToken ELSE held
  /\ pc' = [pc EXCEPT ![c] = "done"]
  /\ resp' = [resp EXCEPT ![c] = NoResp]
  /\ hist' = [hist EXCEPT ![c].answer = IF resp[c].kind = "ok" THEN "ok" ELSE "failed"]
  /\ UNCHANGED <<via, req, api, client_id, client_secret, token_url, now, ticks, issued, race>>

\* mutant: a request that failed is sent once more
Respond_retry(c) ==
  /\ pc[c] = "recv"
  /\ LET again == resp[c].kind \in FailKinds /\ hist[c].sent < 2
     IN /\ token' = StoredToken(resp[c], now)
        /\ origin' = IF resp[c].kind = "ok"
                      THEN [issued_at |-> resp[c].issued_at,
                            expires_in |-> resp[c].expires_in, fetched_at |-> now]
                      ELSE origin
        /\ result' = IF again THEN result
                      ELSE [result EXCEPT ![c] = FetchResult(resp[c], now)]
        /\ lock' = IF again THEN lock ELSE 0
        /\ held' = IF again THEN held ELSE NoToken
        /\ pc' = [pc EXCEPT ![c] = IF again THEN "send" ELSE "done"]
        /\ resp' = [resp EXCEPT ![c] = NoResp]
        /\ hist' = IF again THEN [hist EXCEPT ![c].sent = @ + 1]
                    ELSE [hist EXCEPT ![c].answer =
                            IF resp[c].kind = "ok" THEN "ok" ELSE "failed"]
  /\ UNCHANGED <<via, req, api, client_id, client_secret, token_url, now, ticks, issued, race>>

\* mutant: the failure of the holder's refresh is handed to the callers
\* waiting for the lock
Respond_shared(c) ==
  /\ pc[c] = "recv"
  /\ LET failed == resp[c].kind \in FailKinds
         waiting == IF failed THEN {d \in Calls : pc[d] = "lock"} ELSE {}
     IN /\ result' = [d \in Calls |->
                        IF d = c \/ d \in waiting THEN FetchResult(resp[c], now)
                        ELSE result[d]]
        /\ pc' = [d \in Calls |-> IF d = c \/ d \in waiting THEN "done" ELSE pc[d]]
  /\ token' = StoredToken(resp[c], now)
  /\ origin' = IF resp[c].kind = "ok"
                THEN [issued_at |-> resp[c].issued_at,
                      expires_in |-> resp[c].expires_in, fetched_at |-> now]
                ELSE origin
  /\ lock' = 0
  /\ held' = NoToken
  /\ resp' = [resp EXCEPT ![c] = NoResp]
  /\ hist' = [hist EXCEPT ![c].answer = IF resp[c].kind = "ok" THEN "ok" ELSE "failed"]
  /\ UNCHANGED <<via, req, api, client_id, client_secret, token_url, now, ticks,
                 issued, race>>

\* the answer arrives: fetch_token finishes, get_token returns, the guard drops
Respond(c) ==
  /\ pc[c] = "recv"
  /\ token' = StoredToken(resp[c], now)
  /\ origin' = IF resp[c].kind = "ok"
                THEN [issued_at |-> resp[c].issued_at,
                      expires_in |-> resp[c].expires_in, fetched_at |-> now]
                ELSE origin
  /\ result' = [result EXCEPT ![c] = FetchResult(resp[c], now)]
  /\ lock' = IF lock = c THEN 0 ELSE lock
  /\ held' = IF lock = c THEN NoToken ELSE held
  /\ pc' = [pc EXCEPT ![c] = "done"]
  /\ resp' = [resp EXCEPT ![c] = NoResp]
  /\ hist' = [hist EXCEPT ![c].answer = IF resp[c].kind = "ok" THEN "ok" ELSE "failed"]
  /\ UNCHANGED <<via, req, api, client_id, client_secret, token_url, now, ticks, issued, race>>

(* ----------------------------- clock ------------------------------------ *)

\* the clock advances; it never goes backwards
Tick(d) ==
  /\ ticks < MaxTicks
  /\ now' = now + d
  /\ ticks' = ticks + 1
  /\ UNCHANGED <<via, req, api, client_id, client_secret, token_url, token, lock, pc, resp,
                 result, issued, hist, race, held, origin>>

Next ==
  \/ \E c \in Calls : Call(c)
  \/ \E c \in Calls : Acquire(c)
  \/ \E c \in Calls, e \in ExpiresIn : ProviderIssue(c, e)
  \/ \E c \in Calls, k \in FailKinds : ProviderFail(c, k)
  \/ \E c \in Calls : Respond(c)
  \/ \E d \in Steps : Tick(d)

Spec == Init /\ [][Next]_vars

\* a round trip ends: the endpoint answers the request of c or the request
\* fails
RoundTrip(c) ==
  \/ \E e \in ExpiresIn : ProviderIssue(c, e)
  \/ \E k \in FailKinds : ProviderFail(c, k)

\* the scheduling the code rests on: tokio's Mutex hands the lock to its
\* waiters in turn (a waiter that could take it again and again does take
\* it), a round trip ends with an answer or an error, and a task whose await
\* has completed is run on
Fairness ==
  \A c \in Calls :
    /\ SF_vars(Acquire(c))
    /\ WF_vars(RoundTrip(c))
    /\ WF_vars(Respond(c))

\* the clock stands: its advance decides only between a hit and a refresh, and
\* the lifetimes of ExpiresIn make both happen
LiveNext ==
  \/ \E c \in Calls : Call(c)
  \/ \E c \in Calls : Acquire(c)
  \/ \E c \in Calls : RoundTrip(c)
  \/ \E c \in Calls : Respond(c)

LiveSpec == Init /\ [][LiveNext]_vars /\ Fairness

(* ----------------------------- clones ----------------------------------- *)

\* a caller invokes get_token() on the handle h
CallVia(c, h) ==
  /\ pc[c] = "idle"
  /\ \A d \in Calls : d < c => pc[d] # "idle"
  /\ pc' = [pc EXCEPT ![c] = "lock"]
  /\ via' = [via EXCEPT ![c] = h]
  /\ race' = RaceWith(c)
  /\ UNCHANGED <<req, api, client_id, client_secret, token_url, token, lock, now,
                 ticks, resp, result, issued, hist, held, origin>>

\* calls on the handles of one manager; the clock stands
CloneNext ==
  \/ \E c \in Calls, h \in Handles : CallVia(c, h)
  \/ \E c \in Calls : Acquire(c)
  \/ \E c \in Calls : RoundTrip(c)
  \/ \E c \in Calls : Respond(c)

CloneSpec == Init /\ [][CloneNext]_vars

(* ----------------------------- fetch_token on any AuthInner ------------- *)

\* fetch_token takes `inner: &mut AuthInner`: its input is any AuthInner, each
\* of the three credential fields being None or Some on its own
FetchInit ==
  /\ client_id \in {None, "test_id"}
  /\ client_secret \in {None, "test_secret"}
  /\ token_url \in {None, "/token"}
  /\ token = NoToken
  /\ lock = 0
  /\ now = 0
  /\ ticks = 0
  /\ pc = [c \in Calls |-> "idle"]
  /\ resp = [c \in Calls |-> NoResp]
  /\ result = [c \in Calls |-> Pending]
  /\ issued = 0
  /\ hist = [c \in Calls |-> NoHist]
  /\ race = {}
  /\ held = NoToken
  /\ origin = NoOrigin
  /\ api = [c \in Calls |-> NoApi]
  /\ req = [c \in Calls |-> NoReq]
  /\ via = [c \in Calls |-> TheAuth]

\* fetch_token is entered for c with the guard on inner (auth.rs:92): it
\* returns from one of the three `?` of auth.rs:93-95 or builds its request
\* and runs up to send().await
fetch_token(c) ==
  /\ pc[c] = "idle"
  /\ \A d \in Calls : d < c => pc[d] # "idle"
  /\ LockFree
  /\ LET h == [hist[c] EXCEPT !.ord = 1 + Cardinality({x \in Calls : hist[x].ord > 0}),
                              !.saw = Saw(token, now),
                              !.old = IF Saw(token, now) = "expired"
                                      THEN token.access_token ELSE 0]
     IN IF CredentialError # "ok"
        THEN /\ pc' = [pc EXCEPT ![c] = "done"]
             /\ lock' = lock
             /\ held' = held
             /\ result' = [result EXCEPT ![c] = Err("Auth", CredentialError)]
             /\ hist' = [hist EXCEPT ![c] = h]
             /\ req' = req
        ELSE /\ pc' = [pc EXCEPT ![c] = "send"]
             /\ lock' = c
             /\ held' = token
             /\ result' = result
             /\ hist' = [hist EXCEPT ![c] = [h EXCEPT !.sent = @ + 1]]
             /\ req' = [req EXCEPT ![c] = TokenRequest]
  /\ UNCHANGED <<via, api, client_id, client_secret, token_url, token, now, ticks,
                 resp, issued, race, origin>>

FetchNext ==
  \/ \E c \in Calls : fetch_token(c)
  \/ \E c \in Calls, e \in ExpiresIn : ProviderIssue(c, e)
  \/ \E c \in Calls, k \in FailKinds : ProviderFail(c, k)
  \/ \E c \in Calls : Respond(c)
  \/ \E d \in Steps : Tick(d)

FetchSpec == FetchInit /\ [][FetchNext]_vars

(* ----------------------------- Client ----------------------------------- *)

\* the outcomes of send(), error_for_status() and the reading of the body
ApiOutcomes == {"ok", "failed"}

\* what stands after "Bearer " in format!("Bearer {}", token): token is the
\* Option<String> get_token returned, and Option has no Display, so the string
\* itself or a rendering of the Option are both taken as possible
Renderings == {"string", "option"}

\* mutant: a Client is built over any manager
InClient_any == TRUE

\* the manager is the one of a Client: Client::new and Client::from_parts build
\* it with Auth::new, and nothing builds a Client over Auth::new_public
InClient == client_id # None

\* .header(AUTHORIZATION, format!("Bearer {}", token)) for token = the Option
\* in r, rendered as f: the header is set whether the Option is Some or None
BearerHeader(r, f) ==
  [present |-> TRUE, scheme |-> "Bearer", form |-> f,
   token |-> IF r.kind = "OkSome" THEN r.access_token ELSE 0]

\* mutant: the error of get_token is wrapped as an authorization failure
Propagate_wrapped(e) == Err("Auth", e.cause)

\* `?` on get_token's Result<_, Error> inside a helper returning
\* Result<_, Error>: the error is returned as it is
Propagate(e) == e

\* a helper (get, post, get_plain and get_raw are alike in this) runs from
\* get_token's return to its own return or to send().await
ApiSend(c, f) ==
  /\ InClient
  /\ pc[c] = "done"
  /\ api[c].state = "none"
  /\ api' = [api EXCEPT ![c] =
               IF result[c].kind = "Err"
               THEN [state |-> "done", authorization |-> NoHeader,
                     result |-> Propagate(result[c])]
               ELSE [state |-> "sent", authorization |-> BearerHeader(result[c], f),
                     result |-> Pending]]
  /\ UNCHANGED <<via, req, client_id, client_secret, token_url, token, lock, now, ticks,
                 pc, resp, result, issued, hist, race, held, origin>>

\* the API request is answered or fails, and the helper returns
ApiAnswer(c, o) ==
  /\ api[c].state = "sent"
  /\ api' = [api EXCEPT ![c].state = "done",
                        ![c].result = IF o = "ok" THEN [kind |-> "Ok"]
                                      ELSE Err("Reqwest", "api request")]
  /\ UNCHANGED <<via, req, client_id, client_secret, token_url, token, lock, now, ticks,
                 pc, resp, result, issued, hist, race, held, origin>>

\* the lifetimes the token endpoint answers a client with: the 300 of the
\* client's tests (mock_auth_server) and one below the buffer; the calls are
\* made while the clock stands, as within one test
ClientExpiresIn == {10, 300}

ClientNext ==
  \/ \E c \in Calls : Call(c)
  \/ \E c \in Calls : Acquire(c)
  \/ \E c \in Calls, e \in ClientExpiresIn : ProviderIssue(c, e)
  \/ \E c \in Calls, k \in FailKinds : ProviderFail(c, k)
  \/ \E c \in Calls : Respond(c)
  \/ \E c \in Calls, f \in Renderings : ApiSend(c, f)
  \/ \E c \in Calls, o \in ApiOutcomes : ApiAnswer(c, o)

ClientSpec == Init /\ [][ClientNext]_vars

(* ----------------------------- vocabulary ------------------------------ *)

Authenticated == client_id # None

\* calls whose token request is on the wire or answered and not yet processed
InFlight == {c \in Calls : pc[c] \in {"send", "recv"}}

\* in this step lock().await completes for c
Acquires(c) == pc[c] = "lock" /\ pc'[c] # "lock"

\* in this step get_token() returns to c
Returns(c) == pc[c] # "done" /\ pc'[c] = "done"

\* a race of at least two calls of which every one has returned
RaceOver == Cardinality(race) >= 2 /\ \A c \in race : pc[c] = "done"

\* the racing calls that were answered with a token
RaceIssued == {c \in race : hist[c].got > 0}

\* the racing calls that sent a request
RaceSent == {c \in race : hist[c].sent > 0}

\* c was the first call of the race to take the lock
FirstOfRace(c) == c \in race /\ \A d \in race : hist[c].ord <= hist[d].ord

(* ----------------------------- C1 --------------------------------------- *)

\* C1 (as claimed): when several calls race against an absent or expired
\* cache, the endpoint issues exactly one token to them and all of them return
\* that same token.
C1_OneRefreshPerRace ==
  RaceOver =>
    /\ Cardinality(RaceIssued) = 1
    /\ \A c, d \in race : result[c].kind = "OkSome" /\ result[c] = result[d]

\* C1 (amended): when the first call of a race to take the lock is answered
\* with a token, and that token is still the unexpired cached token when the
\* last call of the race has returned, then the calls of the race have sent
\* exactly one request, the endpoint has issued them exactly one token, and
\* every one of them has returned that token.
C1_OneRefreshWhileValid ==
  \A f \in race :
    ( /\ RaceOver
      /\ FirstOfRace(f)
      /\ hist[f].answer = "ok"
      /\ token.some
      /\ token.access_token = hist[f].got
      /\ now < token.expires )
    => /\ RaceSent = {f}
       /\ RaceIssued = {f}
       /\ \A c \in race : result[c] = OkSome(hist[f].got)

\* C1 witness: a race of two calls is over, the first sent the request and the
\* other was served the token from the cache.
C1_Witness ==
  \E f, d \in race :
    /\ RaceOver
    /\ f # d
    /\ FirstOfRace(f)
    /\ hist[f].answer = "ok"
    /\ hist[d].hit
    /\ result[d] = OkSome(hist[f].got)
    /\ now < token.expires

(* ----------------------------- C2 --------------------------------------- *)

\* at most one request is in flight, and its sender holds the lock over the
\* cache it inspected
OneInFlight ==
  /\ Cardinality(InFlight) <= 1
  /\ \A c \in InFlight : lock = c /\ token = held

\* C2: at most one refresh request is in flight; the check and the
\* refresh-and-store are one critical section (the sender holds the lock from
\* its check to its store, and the cache is the one it checked), and no other
\* call inspects the cache while a request is in flight.
C2_SingleCriticalSection ==
  /\ []OneInFlight
  /\ [][\A c \in Calls : Acquires(c) => InFlight = {}]_vars
  /\ [][token' # token => \E c \in Calls : lock = c /\ pc[c] = "recv" /\ token = held]_vars

\* C2 witness: one call refreshes while two others wait for the lock.
C2_Witness ==
  \E c \in Calls :
    /\ pc[c] = "recv"
    /\ Cardinality({d \in Calls : pc[d] = "lock"}) >= 2

(* ----------------------------- C3 --------------------------------------- *)

\* seconds from now to the real expiry (issue time plus expires_in) of the
\* token that c is about to return: the answer c is processing, or the cached
\* token
MarginOf(c) ==
  IF pc[c] = "recv"
  THEN resp[c].issued_at + resp[c].expires_in - now
  ELSE origin.issued_at + origin.expires_in - now

\* seconds between the endpoint issuing the cached token and fetch_token
\* storing it
OriginDelay == origin.fetched_at - origin.issued_at

\* C3 (as claimed): every token get_token() returns on an authenticated
\* manager is, when it is returned, at least 30 seconds away from its real
\* expiry.
C3_ThirtySecondsLeft ==
  [][\A c \in Calls :
       (Returns(c) /\ result'[c].kind = "OkSome") => MarginOf(c) >= 30]_vars

\* C3 (amended): every token get_token() returns from the cache is, when it is
\* returned, more than 30 - d seconds away from its real expiry, d being the
\* time between the endpoint issuing the token and fetch_token storing it, and
\* was issued with expires_in > 30.
C3_BufferLessDelay ==
  [][\A c \in Calls :
       (Returns(c) /\ pc[c] = "lock" /\ result'[c].kind = "OkSome")
       => /\ result'[c] = OkSome(token.access_token)
          /\ MarginOf(c) > 30 - OriginDelay
          /\ OriginDelay >= 0
          /\ origin.expires_in > 30]_vars

\* C3 witness: a call was served from the cache a token whose answer took time
\* to arrive, with less than 30 seconds to its real expiry.
C3_Witness ==
  \E c \in Calls :
    /\ pc[c] = "done"
    /\ hist[c].hit
    /\ result[c] = OkSome(token.access_token)
    /\ OriginDelay > 0
    /\ origin.issued_at + origin.expires_in - now < 30

(* ----------------------------- C4 --------------------------------------- *)

\* C4: a manager built with new_public() returns Ok(None) on every call and
\* never sends a request to the token endpoint.
C4_PublicNeverRefreshes ==
  ~Authenticated =>
    /\ InFlight = {}
    /\ issued = 0
    /\ token = NoToken
    /\ \A c \in Calls :
         /\ hist[c].sent = 0
         /\ pc[c] = "done" => result[c] = OkNone

\* C4 witness: every call on a public manager has returned.
C4_Witness == ~Authenticated /\ \A c \in Calls : pc[c] = "done" /\ result[c] = OkNone

(* ----------------------------- C5 --------------------------------------- *)

\* C5: while the cached token's expires_at is strictly later than the current
\* time, a get_token() call returns the cached access token, sends no request
\* and leaves the cached token unchanged.
C5_FastPath ==
  [][\A c \in Calls :
       (Acquires(c) /\ Authenticated /\ token.some /\ now < token.expires)
       => /\ Returns(c)
          /\ result'[c] = OkSome(token.access_token)
          /\ hist'[c].sent = 0
          /\ InFlight' = InFlight
          /\ issued' = issued
          /\ token' = token]_vars

\* C5 witness: two calls were served the same cached token.
C5_Witness ==
  \E c, d \in Calls :
    /\ c # d
    /\ hist[c].hit /\ hist[d].hit
    /\ hist[c].saw = "valid" /\ hist[d].saw = "valid"
    /\ result[c] = result[d]
    /\ result[c] = OkSome(token.access_token)

(* ----------------------------- C6 --------------------------------------- *)

\* C6: a call that finds the cached token's expires_at in the past sends
\* exactly one request, and when that request is answered with a token it
\* returns and stores the access_token of that answer, not the string that was
\* cached.
C6_ExpiryTriggersRefresh ==
  [][\A c \in Calls :
       /\ (Acquires(c) /\ Authenticated /\ token.some /\ now > token.expires)
          => /\ pc'[c] = "send"
             /\ hist'[c].sent = 1
             /\ InFlight' = {c}
             /\ token' = token
       /\ (Returns(c) /\ pc[c] = "recv" /\ held.some /\ resp[c].kind = "ok")
          => /\ hist[c].sent = 1
             /\ result'[c] = OkSome(resp[c].access_token)
             /\ result'[c] # OkSome(held.access_token)
             /\ token'.access_token = resp[c].access_token]_vars

\* C6 witness: a call found the cached token expired, sent one request and
\* returned the newly issued token, which is now the cached one.
C6_Witness ==
  \E c \in Calls :
    /\ pc[c] = "done"
    /\ hist[c].saw = "expired"
    /\ hist[c].sent = 1
    /\ hist[c].answer = "ok"
    /\ hist[c].got > 1
    /\ result[c] = OkSome(hist[c].got)
    /\ token.access_token = hist[c].got

(* ----------------------------- C7 --------------------------------------- *)

\* C7: a successful refresh stores expires_at = now + expires_in - 30 with now
\* read when the answer is processed; afterwards a call is served from the
\* cache exactly while now is before that instant (for expires_in = 300: at
\* 269 s after the refresh, and no longer at 271 s).
C7_BufferArithmetic ==
  [][\A c \in Calls :
       /\ (Returns(c) /\ pc[c] = "recv" /\ resp[c].kind = "ok")
          => /\ token'.expires = now + resp[c].expires_in - 30
             /\ origin'.fetched_at = now
             /\ origin'.expires_in = resp[c].expires_in
       /\ (Acquires(c) /\ token.some)
          => /\ token.expires = origin.fetched_at + origin.expires_in - 30
             /\ now < origin.fetched_at + origin.expires_in - 30
                  => Returns(c) /\ result'[c] = OkSome(token.access_token)
             /\ now >= origin.fetched_at + origin.expires_in - 30
                  => pc'[c] = "send"]_vars

\* C7 witness: a token issued with expires_in = 300 was served from the cache
\* 269 s after the refresh, and a call 271 s after the refresh found it expired
\* and sent a request.
C7_Witness ==
  \E c, d \in Calls :
    /\ origin.expires_in = 300
    /\ token.expires = origin.fetched_at + 270
    /\ pc[c] = "done" /\ hist[c].hit /\ result[c] = OkSome(token.access_token)
    /\ hist[c].ord < hist[d].ord
    /\ pc[d] = "send" /\ hist[d].saw = "expired"
    /\ now = origin.fetched_at + 271
    /\ ticks = 2

(* ----------------------------- C8 --------------------------------------- *)

\* C8: a call whose refresh fails returns an error and releases the lock, and
\* the next call to take the lock sends a new request and, when that is
\* answered with a token, returns and stores the new token.
C8_FailureRecoverable ==
  /\ \A c \in Calls :
       (pc[c] = "done" /\ hist[c].answer = "failed")
       => result[c].kind = "Err" /\ lock # c
  /\ \A c, d \in Calls :
       ( /\ pc[c] = "done" /\ result[c].kind = "Err"
         /\ hist[d].ord = hist[c].ord + 1 )
       => /\ hist[d].sent = 1
          /\ hist[d].saw # "valid"
          /\ (pc[d] = "done" /\ hist[d].answer = "ok")
             => result[d] = OkSome(hist[d].got)
          /\ (pc[d] = "done" /\ hist[d].answer = "ok" /\ lock = 0
                /\ \A x \in Calls : hist[x].ord <= hist[d].ord)
             => token.access_token = hist[d].got

\* C8 witness: a call failed, and the next call refreshed and returned the new
\* token.
C8_Witness ==
  \E c, d \in Calls :
    /\ pc[c] = "done" /\ result[c].kind = "Err"
    /\ hist[d].ord = hist[c].ord + 1
    /\ pc[d] = "done" /\ hist[d].answer = "ok"
    /\ result[d] = OkSome(hist[d].got)
    /\ token.access_token = hist[d].got

(* ----------------------------- C9 --------------------------------------- *)

\* C9: a refresh that fails, for whatever reason, leaves the cached-token slot
\* as the call found it when it took the lock.
C9_FailedRefreshKeepsCache ==
  [][\A c \in Calls :
       (Returns(c) /\ pc[c] = "recv" /\ resp[c].kind \in FailKinds)
       => token' = token /\ token = held /\ origin' = origin]_vars

\* C9 witness: a call found an expired token, its refresh failed, and the
\* expired token is still stored.
C9_Witness ==
  \E c \in Calls :
    /\ pc[c] = "done"
    /\ hist[c].saw = "expired"
    /\ hist[c].answer = "failed"
    /\ token.some
    /\ now >= token.expires

(* ----------------------------- C10 -------------------------------------- *)

\* C10: on an authenticated manager a call whose refresh fails returns an error,
\* also when an older token is stored; a call never returns Ok(None), and it
\* returns a cached token only when it found it unexpired.
C10_NoStaleFallback ==
  Authenticated =>
    \A c \in Calls :
      pc[c] = "done" =>
        /\ result[c] # OkNone
        /\ hist[c].answer = "failed" => result[c].kind = "Err"
        /\ hist[c].saw \in {"absent", "expired"} =>
             \/ result[c].kind = "Err" /\ hist[c].answer = "failed"
             \/ result[c] = OkSome(hist[c].got) /\ hist[c].answer = "ok"
        /\ hist[c].hit => hist[c].saw = "valid"

\* C10 witness: with an expired token stored, a call's refresh failed and the
\* call returned an error.
C10_Witness ==
  \E c \in Calls :
    /\ pc[c] = "done"
    /\ hist[c].saw = "expired"
    /\ hist[c].answer = "failed"
    /\ token.some
    /\ result[c].kind = "Err"

(* ----------------------------- C11 -------------------------------------- *)

\* C11: a call sends at most one request: exactly one when the manager is
\* authenticated and the call found the cache absent or expired, none
\* otherwise; a request that failed is not sent again by the same call.
C11_AtMostOneRequest ==
  \A c \in Calls :
    /\ hist[c].sent <= 1
    /\ hist[c].sent = 1 <=> c \in InFlight \/ hist[c].answer # "none"
    /\ hist[c].saw # "none" =>
         (hist[c].sent = 1 <=> Authenticated /\ hist[c].saw \in {"absent", "expired"})
    /\ hist[c].answer = "failed" => pc[c] = "done" /\ result[c].kind = "Err"

\* C11 witness: one call sent a request that failed and returned, another was
\* served from the cache without sending anything.
C11_Witness ==
  \E c, d \in Calls :
    /\ pc[c] = "done" /\ hist[c].answer = "failed" /\ hist[c].sent = 1
    /\ pc[d] = "done" /\ hist[d].hit /\ hist[d].sent = 0

(* ----------------------------- C12 -------------------------------------- *)

\* the calls that took the lock before c and whose refresh stored a token
RefreshedBefore(c) ==
  {d \in Calls : hist[d].ord > 0 /\ hist[d].ord < hist[c].ord /\ pc[d] = "done"
                 /\ hist[d].answer = "ok"}

\* C12: the calls take the lock one after the other, the tokens are issued in
\* the order in which the refreshing calls took the lock, a refresh has
\* completed before the next call inspects the cache, and a call served from
\* the cache returns the token of the latest refresh completed before it,
\* never an earlier one.
C12_LatestRefreshServed ==
  /\ \A c, d \in Calls :
       (c # d /\ hist[c].ord > 0 /\ hist[d].ord > 0) =>
         /\ hist[c].ord # hist[d].ord
         /\ (hist[c].ord < hist[d].ord /\ hist[c].sent = 1) => pc[c] = "done"
         /\ (hist[c].ord < hist[d].ord /\ hist[c].got > 0 /\ hist[d].got > 0)
              => hist[c].got < hist[d].got
  /\ \A c \in Calls :
       hist[c].saw = "valid" =>
         /\ pc[c] = "done" /\ hist[c].hit /\ hist[c].sent = 0
         /\ RefreshedBefore(c) # {}
         /\ \A d \in RefreshedBefore(c) : result[c].access_token >= hist[d].got
         /\ \E d \in RefreshedBefore(c) : result[c] = OkSome(hist[d].got)

\* C12 witness: two refreshes have completed one after the other and a third
\* call was served the token of the second.
C12_Witness ==
  \E a, b, c \in Calls :
    /\ hist[a].answer = "ok" /\ hist[b].answer = "ok"
    /\ hist[a].ord < hist[b].ord /\ hist[b].ord < hist[c].ord
    /\ pc[c] = "done" /\ hist[c].hit
    /\ result[c] = OkSome(hist[b].got)
    /\ hist[b].got > hist[a].got

(* ----------------------------- C16 -------------------------------------- *)

\* C16 (as claimed): every failed refresh is returned from get_token() as
\* Error::Auth.
C16_RefreshFailureIsAuth ==
  \A c \in Calls :
    hist[c].answer = "failed" => result[c].kind = "Err" /\ result[c].variant = "Auth"

\* C16 (amended): every failed refresh, whether the request failed in transit,
\* by its status or by its body, is returned from get_token() as
\* Error::Reqwest holding the reqwest error, and no call on a constructed
\* manager returns Error::Auth.
C16_RefreshFailureIsReqwest ==
  /\ [](\A c \in Calls :
          /\ hist[c].answer = "failed" => result[c] = Err("Reqwest", "request")
          /\ result[c].kind = "Err" => result[c].variant # "Auth")
  /\ [][\A c \in Calls : \A k \in FailKinds :
          (pc[c] = "recv" /\ resp[c].kind = k /\ Returns(c))
            => result'[c] = Err("Reqwest", "request")]_vars

\* C16 witness: a refresh has failed and its call returned Error::Reqwest.
C16_Witness ==
  \E c \in Calls :
    /\ pc[c] = "done" /\ hist[c].sent = 1 /\ hist[c].got = 0
    /\ result[c].kind = "Err" /\ result[c].variant = "Reqwest"

(* ----------------------------- C18 -------------------------------------- *)

\* C18: a response with expires_in <= 30 is stored with the expiry
\* now + expires_in - 30, which is not in the future, and its token is
\* returned; every call that takes the lock while such a token is cached
\* finds it expired and sends a new request.
C18_ShortLivedRefreshedAgain ==
  /\ [][\A c \in Calls :
          (pc[c] = "recv" /\ resp[c].kind = "ok" /\ Returns(c)
           /\ resp[c].expires_in <= TOKEN_EXPIRY_BUFFER_SECONDS)
            => /\ result'[c] = OkSome(resp[c].access_token)
               /\ token' = [some |-> TRUE, access_token |-> resp[c].access_token,
                            expires |-> now + resp[c].expires_in
                                            - TOKEN_EXPIRY_BUFFER_SECONDS]
               /\ token'.expires <= now']_vars
  /\ [][\A c \in Calls :
          (Acquires(c) /\ Authenticated /\ token.some
           /\ origin.expires_in <= TOKEN_EXPIRY_BUFFER_SECONDS)
            => /\ pc'[c] = "send"
               /\ hist'[c].saw = "expired"
               /\ hist'[c].sent = 1]_vars

\* C18 witness: a call was answered with a token of at most 30 seconds and
\* returned it; the next call has found it expired and sent a request.
C18_Witness ==
  \E c, d \in Calls :
    /\ pc[c] = "done" /\ result[c] = OkSome(hist[c].got)
    /\ token.some /\ token.access_token = hist[c].got
    /\ origin.expires_in <= TOKEN_EXPIRY_BUFFER_SECONDS
    /\ hist[d].ord > hist[c].ord
    /\ pc[d] = "send" /\ hist[d].saw = "expired" /\ hist[d].sent = 1

(* ----------------------------- C19 -------------------------------------- *)

\* C19 (as claimed): a call waits nowhere but in the round trip of its own
\* refresh: no call stands at lock().await while the lock is taken.
C19_OnlyOwnRoundTrip ==
  \A d \in Calls : pc[d] = "lock" => lock = 0

\* C19 (amended): while the cached token is valid no refresh is in flight and
\* the lock is free, so a call made then is answered without waiting; the lock
\* is taken only for the length of a round trip, and that is how long a call
\* can wait at lock().await besides the round trip of its own refresh.
C19_WaitsOnlyForRefresh ==
  /\ (Authenticated /\ token.some /\ ~is_expired(token, now))
       => lock = 0 /\ InFlight = {}
  /\ lock # 0 => pc[lock] \in {"send", "recv"}
  /\ \A d \in Calls : hist[d].hit => hist[d].sent = 0

\* C19 witness: a call waits at the lock while another call's refresh has been
\* answered with a token it is about to be served from the cache.
C19_Witness ==
  \E c, d \in Calls :
    /\ c # d /\ lock = c /\ pc[d] = "lock"
    /\ pc[c] = "recv" /\ resp[c].kind = "ok"
    /\ resp[c].expires_in > TOKEN_EXPIRY_BUFFER_SECONDS

(* ----------------------------- C20 -------------------------------------- *)

\* C20: fetch_token entered while client_id, client_secret or token_url is
\* missing returns Error::Auth naming the first missing field, a variant no
\* failed request produces, and sends nothing to the token endpoint; with the
\* three fields set it never returns Error::Auth.
C20_MissingFieldIsAuthError ==
  LET missing == {f \in {"client_id", "client_secret", "token_url"} :
                    \/ f = "client_id" /\ client_id = None
                    \/ f = "client_secret" /\ client_secret = None
                    \/ f = "token_url" /\ token_url = None}
      msg(f) == IF f = "client_id" THEN "client_id not set"
                ELSE IF f = "client_secret" THEN "client_secret not set"
                ELSE "token_url not set"
  IN /\ missing # {} =>
          /\ issued = 0 /\ InFlight = {} /\ token = NoToken /\ lock = 0
          /\ \A c \in Calls :
               /\ hist[c].sent = 0
               /\ pc[c] \in {"idle", "done"}
               /\ pc[c] = "done" =>
                    /\ result[c].kind = "Err" /\ result[c].variant = "Auth"
                    /\ \E f \in missing : result[c].cause = msg(f)
     /\ missing = {} =>
          \A c \in Calls : result[c].kind = "Err" => result[c].variant = "Reqwest"

\* C20 witness: with the id set and the secret missing, fetch_token has
\* returned Error::Auth("client_secret not set") and nothing was sent.
C20_Witness ==
  /\ client_id # None /\ client_secret = None
  /\ \E c \in Calls :
       /\ pc[c] = "done" /\ hist[c].sent = 0
       /\ result[c] = Err("Auth", "client_secret not set")

(* ----------------------------- C13 -------------------------------------- *)

C14_BearerOrNoHeader ==
  \A c \in Calls :
    api[c].state = "sent" =>
      /\ result[c].kind = "OkSome" =>
           api[c].authorization =
             [present |-> TRUE, scheme |-> "Bearer", form |-> "string",
              token |-> result[c].access_token]
      /\ result[c].kind = "OkNone" => api[c].authorization = NoHeader

(* ----------------------------- C15 -------------------------------------- *)

\* C15: on a client built with credentials an API request is sent only after
\* the call's get_token() has returned and after the token endpoint has
\* issued a token, and it carries Authorization: Bearer t for the access
\* token t that get_token() returned, which the endpoint issued.
C15_IssuedTokenAsBearer ==
  Authenticated =>
    \A c \in Calls :
      api[c].authorization.present =>
        /\ pc[c] = "done" /\ result[c].kind = "OkSome"
        /\ issued >= 1
        /\ \E d \in Calls : hist[d].answer = "ok" /\ hist[d].got = result[c].access_token
        /\ api[c].authorization =
             [present |-> TRUE, scheme |-> "Bearer", form |-> "string",
              token |-> result[c].access_token]
        /\ api[c].authorization.token \in 1..issued

(* ----------------------------- C17 -------------------------------------- *)

\* the API calls whose get_token() failed, and those whose own request failed
TokenFailed == {c \in Calls : api[c].state = "done" /\ result[c].kind = "Err"}
ApiFailed ==
  {c \in Calls : api[c].state = "done" /\ result[c].kind # "Err"
                 /\ api[c].result.kind = "Err"}

\* C17 (as claimed): an API call whose get_token() failed sends no request
\* and returns an authorization error, of another kind than the error of an
\* API call whose own request failed.
C17_AuthorizationFailureMarked ==
  \A c \in TokenFailed :
    /\ ~api[c].authorization.present
    /\ api[c].result.kind = "Err" /\ api[c].result.variant = "Auth"
    /\ \A d \in ApiFailed : api[d].result.variant # api[c].result.variant

\* C17 (amended): an API call whose get_token() failed sends no request and
\* returns get_token()'s error as it is, Error::Reqwest for a failed refresh,
\* which is also the variant of the error of a failed API request; the two
\* differ only in the reqwest error they hold.
C17_TokenErrorReturnedUnchanged ==
  /\ \A c \in Calls :
       (result[c].kind = "Err" /\ api[c].state # "none") =>
         /\ api[c].state = "done"
         /\ api[c].authorization = NoHeader
         /\ api[c].result = result[c]
         /\ api[c].result.variant = "Reqwest"
  /\ \A d \in ApiFailed : api[d].result = Err("Reqwest", "api request")
  /\ \A c \in TokenFailed : \A d \in ApiFailed :
       /\ api[c].result.variant = api[d].result.variant
       /\ api[c].result.cause # api[d].result.cause

\* C17 witness: one API call has returned the error of its failed refresh,
\* another the error of its failed API request.
C17_Witness ==
  \E c \in TokenFailed : \E d \in ApiFailed :
    /\ api[c].result = Err("Reqwest", "request")
    /\ api[d].authorization.present
    /\ api[d].result = Err("Reqwest", "api request")

(* ----------------------------- C21 -------------------------------------- *)

\* C21: a call that refreshes sends one POST to the configured token_url
\* whose form body is exactly grant_type=client_credentials, client_id,
\* client_secret of the manager and scope=openid, and a call that does not
\* refresh sends nothing; the answer is accepted (a token stored and returned)
\* only when it is a 2xx answer whose body is a TokenResponse, and a failure
\* in transit, a non-2xx status or another body is returned as an error.
C21_FormPostAcceptedOn2xx ==
  /\ [](\A c \in Calls :
          /\ hist[c].sent <= 1
          /\ hist[c].sent = 0 => req[c] = NoReq
          /\ hist[c].sent = 1 =>
               /\ req[c].method = "POST"
               /\ req[c].url = token_url /\ req[c].url # None
               /\ Len(req[c].form) = 4
               /\ req[c].form[1] = <<"grant_type", "client_credentials">>
               /\ req[c].form[2] = <<"client_id", client_id>>
               /\ req[c].form[3] = <<"client_secret", client_secret>>
               /\ req[c].form[4] = <<"scope", "openid">>
               /\ client_id # None /\ client_secret # None)
  /\ [][\A c \in Calls :
          (pc[c] = "recv" /\ Returns(c)) =>
            /\ resp[c].kind = "ok" =>
                 /\ result'[c] = OkSome(resp[c].access_token)
                 /\ token'.some /\ token'.access_token = resp[c].access_token
            /\ resp[c].kind \in FailKinds =>
                 /\ result'[c].kind = "Err"
                 /\ token' = token]_vars

\* C21 witness: one call's request was answered with a token and accepted,
\* another call sent the same request and had it refused.
C21_Witness ==
  \E c, d \in Calls :
    /\ req[c].method = "POST" /\ hist[c].answer = "ok" /\ pc[c] = "done"
    /\ req[d] = req[c] /\ hist[d].answer = "failed" /\ pc[d] = "done"

(* ----------------------------- C22 -------------------------------------- *)

\* C22: a call that takes the lock of an authenticated manager holding a
\* token returns that token, without a request, exactly when now < expires;
\* when now = expires, as when now > expires, it sends a refresh request.
C22_ServedStrictlyBeforeExpiry ==
  [][\A c \in Calls :
       (Acquires(c) /\ Authenticated /\ token.some) =>
         /\ now < token.expires =>
              /\ pc'[c] = "done"
              /\ result'[c] = OkSome(token.access_token)
              /\ hist'[c].sent = 0
         /\ now >= token.expires =>
              /\ pc'[c] = "send"
              /\ hist'[c].sent = 1
              /\ result'[c] = Pending]_vars

\* C22 witness: a call has taken the lock at the very instant the cached
\* token expires and has sent a refresh request.
C22_Witness ==
  \E c \in Calls :
    /\ token.some /\ token.expires = now
    /\ pc[c] = "send" /\ hist[c].old = token.access_token
    /\ ticks = 0

(* ----------------------------- C23 -------------------------------------- *)

\* C23: a successful refresh leaves in the slot exactly the access_token of
\* the response and the expiry computed from the response at that moment,
\* whatever was cached before, and returns the access_token it stored.
C23_ReplacedAsAWhole ==
  [][\A c \in Calls :
       (pc[c] = "recv" /\ resp[c].kind = "ok" /\ Returns(c)) =>
         /\ token' = [some |-> TRUE, access_token |-> resp[c].access_token,
                      expires |-> now + resp[c].expires_in
                                      - TOKEN_EXPIRY_BUFFER_SECONDS]
         /\ result'[c] = OkSome(token'.access_token)
         /\ token.some => token'.access_token # token.access_token]_vars

\* C23 witness: a second refresh, made later, has replaced the expired token
\* of a first one, and its call returned the stored access token.
C23_Witness ==
  \E c, d \in Calls :
    /\ hist[d].answer = "ok" /\ hist[c].answer = "ok" /\ hist[d].got < hist[c].got
    /\ hist[c].old = hist[d].got
    /\ token.some /\ token.access_token = hist[c].got
    /\ token.expires = origin.fetched_at + origin.expires_in
                         - TOKEN_EXPIRY_BUFFER_SECONDS
    /\ origin.fetched_at > 0
    /\ result[c] = OkSome(token.access_token)

(* ----------------------------- C24 -------------------------------------- *)

\* C24: until the endpoint has issued a token the slot is empty; a refresh
\* answered with expires_in > 30 takes the slot from absent or expired to
\* valid; and the manager never gets stuck: whatever calls have succeeded or
\* failed, the next call can be made, and a call waiting for the lock can take
\* it as soon as no request is in flight.
C24_NoTerminalState ==
  /\ [](issued = 0 => token = NoToken)
  /\ [][\A c \in Calls :
          (pc[c] = "recv" /\ resp[c].kind = "ok" /\ Returns(c)
           /\ resp[c].expires_in > TOKEN_EXPIRY_BUFFER_SECONDS)
            => /\ Saw(token, now) \in {"absent", "expired"}
               /\ Saw(token', now') = "valid"]_vars
  /\ [](\A c \in Calls :
          /\ (pc[c] = "idle" /\ \A d \in Calls : d < c => pc[d] # "idle")
               => ENABLED Call(c)
          /\ (pc[c] = "lock" /\ InFlight = {}) => ENABLED Acquire(c))

\* C24 witness: after one refresh that succeeded and one that failed, a
\* further call has been made and the lock is free for it.
C24_Witness ==
  \E a, b, c \in Calls :
    /\ hist[a].answer = "ok" /\ pc[a] = "done"
    /\ hist[b].answer = "failed" /\ pc[b] = "done"
    /\ pc[c] = "lock" /\ lock = 0 /\ InFlight = {}

(* ----------------------------- C25 -------------------------------------- *)

\* C25: no step changes client_id, client_secret or token_url, and the token
\* slot changes only in the step in which the lock holder's refresh succeeds.
C25_OnlySuccessChangesSlot ==
  [][/\ client_id' = client_id
     /\ client_secret' = client_secret
     /\ token_url' = token_url
     /\ token' # token =>
          \E c \in Calls :
            /\ lock = c /\ pc[c] = "recv" /\ resp[c].kind = "ok" /\ Returns(c)
            /\ token' = NewToken(resp[c], now)]_vars

\* C25 witness: calls have hit the cache, refreshed and failed to refresh, and
\* the credentials are those of the construction.
C25_Witness ==
  /\ client_id = "test_id" /\ client_secret = "test_secret" /\ token_url = "/token"
  /\ token.some
  /\ \E a, b, c \in Calls :
       /\ hist[a].answer = "ok" /\ hist[b].answer = "failed" /\ hist[c].hit
       /\ pc[a] = "done" /\ pc[b] = "done" /\ pc[c] = "done"

(* ----------------------------- C26 -------------------------------------- *)

\* C26: a call that returns does not keep the lock, whichever way it returns,
\* and, round trips ending and the lock being handed on, every call that has
\* been made returns.
C26_EveryCallReturns ==
  /\ [][\A c \in Calls : Returns(c) => lock' # c /\ (lock = c => lock' = 0)]_vars
  /\ [](\A c \in Calls : pc[c] = "done" => lock # c)
  /\ \A c \in Calls : (pc[c] = "lock") ~> (pc[c] = "done")

\* C26 witness: calls have returned from a cache hit, from a refresh that
\* succeeded and from one that failed, and the lock is free.
C26_Witness ==
  /\ lock = 0
  /\ \E a, b, c \in Calls :
       /\ pc[a] = "done" /\ hist[a].hit /\ result[a].kind = "OkSome"
       /\ pc[b] = "done" /\ hist[b].answer = "ok" /\ result[b].kind = "OkSome"
       /\ pc[c] = "done" /\ hist[c].answer = "failed" /\ result[c].kind = "Err"

(* ----------------------------- C27 -------------------------------------- *)

\* C27: the failure of the lock holder's refresh ends the holder's call only:
\* the slot and the calls waiting for the lock are left as they were, so each
\* of them finds the cache as absent or expired as the holder did and sends
\* its own request; requests are in flight one at a time, and while the
\* endpoint has issued nothing every call that returned has sent one request.
C27_FailureNotShared ==
  /\ [](Cardinality(InFlight) <= 1)
  /\ [](Authenticated /\ issued = 0 =>
          \A c \in Calls :
            pc[c] = "done" => hist[c].sent = 1 /\ hist[c].answer = "failed")
  /\ [][\A c \in Calls :
          (pc[c] = "recv" /\ resp[c].kind \in FailKinds /\ Returns(c)) =>
            /\ token' = token
            /\ \A d \in Calls \ {c} : pc'[d] = pc[d] /\ result'[d] = result[d]]_vars
  /\ [][\A c \in Calls :
          (Acquires(c) /\ Authenticated /\ Saw(token, now) # "valid") =>
            pc'[c] = "send" /\ hist'[c].sent = 1 /\ lock' = c]_vars

\* C27 witness: three calls raced against an empty slot while the endpoint
\* was failing: each has sent one request and each has failed.
C27_Witness ==
  /\ RaceOver /\ Cardinality(race) >= 3
  /\ \A c \in race :
       hist[c].saw = "absent" /\ hist[c].sent = 1 /\ hist[c].answer = "failed"

(* ----------------------------- C28 -------------------------------------- *)

\* C28: client_id, client_secret and token_url are all set or all unset, so
\* the mode test on client_id decides for the three, fetch_token's "not set"
\* checks never fail and no call returns Error::Auth.
C28_AllOrNothing ==
  /\ \/ client_id = None /\ client_secret = None /\ token_url = None
     \/ client_id # None /\ client_secret # None /\ token_url # None
  /\ Authenticated => CredentialError = "ok"
  /\ \A c \in Calls :
       /\ ~(result[c].kind = "Err" /\ result[c].variant = "Auth")
       /\ hist[c].sent = 1 => req[c].form[3] # <<"client_secret", None>>

\* C28 witness: fetch_token has passed its three checks and sent a request.
C28_Witness ==
  /\ client_id # None /\ client_secret # None /\ token_url # None
  /\ \E c \in Calls : pc[c] = "send" /\ req[c] = TokenRequest /\ hist[c].ord = 1

(* ----------------------------- C29 -------------------------------------- *)

C30_ExpiredNeverServedAgain ==
  \A c, d \in Calls :
    (hist[c].old > 0 /\ hist[d].ord > hist[c].ord /\ result[d].kind = "OkSome")
      => result[d].access_token # hist[c].old

\* C30 witness: a call found the entry expired and failed to refresh it; the
\* entry stayed in the slot, and the next call found it expired as well and
\* returned a new token.
C30_Witness ==
  \E c, d \in Calls :
    /\ hist[c].old > 0 /\ hist[c].answer = "failed"
    /\ hist[d].ord > hist[c].ord /\ hist[d].old = hist[c].old
    /\ pc[d] = "done" /\ result[d] = OkSome(hist[d].got)
    /\ hist[d].got > hist[c].old

====
